---- MODULE Spec2Model ----
(***************************************************************************)
(* goquote: a command that formats raw bytes as a Go (or JSON) literal.    *)
(*                                                                         *)
(* Two revisions of the command are modelled: "goquote.go" (the earlier    *)
(* one: no j mode, no -c, no \0 separator, no trailing separator) and      *)
(* "part_000" (the later one).  Byte strings are sequences of integers     *)
(* 0..255; mode tokens are compared for equality only and are kept as      *)
(* strings.  The library routines the command calls (strconv.Quote,        *)
(* strconv.QuoteToASCII, strconv.CanBackquote, strconv.Unquote,            *)
(* strconv.FormatUint, strconv.Itoa, json.Marshal of a string) are         *)
(* operators that compute what the routines compute, byte by byte.         *)
(***************************************************************************)
EXTENDS Integers, Sequences, FiniteSets, TLC

(***************************************************************************)
(* Bounds of the exploration.                                              *)
(***************************************************************************)
\* most chunks (see Chunks) concatenated into one input read from stdin
MaxLen == 2
\* most positional arguments after the mode token
MaxArgs == 2

(***************************************************************************)
(* Sequence helpers.                                                       *)
(***************************************************************************)
RECURSIVE Flatten(_)
Flatten(ss) == IF ss = <<>> THEN <<>> ELSE Head(ss) \o Flatten(Tail(ss))

Drop(s, n) == SubSeq(s, n + 1, Len(s))

Take(s, n) == SubSeq(s, 1, n)

Contains(s, c) == \E k \in 1..Len(s) : s[k] = c

RECURSIVE SeqsUpTo(_, _)
SeqsUpTo(S, n) ==
  IF n = 0 THEN {<<>>}
  ELSE LET shorter == SeqsUpTo(S, n - 1)
       IN  shorter \cup {Append(s, x) : s \in shorter, x \in S}

(***************************************************************************)
(* Number formatting: strconv.FormatUint(c, 16) and strconv.Itoa.          *)
(***************************************************************************)
\* one digit of strconv's "0123456789abcdef..." table
Digit(d) == IF d < 10 THEN 48 + d ELSE 87 + d

RECURSIVE FormatUint(_, _)
FormatUint(n, base) ==
  IF n < base THEN <<Digit(n)>>
  ELSE Append(FormatUint(n \div base, base), Digit(n % base))

Itoa(n) == FormatUint(n, 10)

\* the two hex digits strconv.Quote and json.Marshal write for one byte
Hex2(c) == <<Digit(c \div 16), Digit(c % 16)>>

Hex4(r) == Hex2(r \div 256) \o Hex2(r % 256)

(***************************************************************************)
(* UTF-8: utf8.DecodeRuneInString, utf8.AppendRune, utf8.ValidString.      *)
(***************************************************************************)
IsCont(c) == c >= 128 /\ c <= 191

\* the rune utf8.DecodeRuneInString finds in s from position k on, and its
\* width; r = 65533 (utf8.RuneError) with w = 1 is an invalid byte
DecodeRune(s, k) ==
  LET c == s[k]
      n == Len(s) - k + 1
      bad == [r |-> 65533, w |-> 1]
  IN  IF c < 128 THEN [r |-> c, w |-> 1]
      ELSE IF c >= 194 /\ c <= 223
        THEN IF n >= 2 /\ IsCont(s[k + 1])
             THEN [r |-> (c - 192) * 64 + (s[k + 1] - 128), w |-> 2]
             ELSE bad
      ELSE IF c >= 224 /\ c <= 239
        THEN IF /\ n >= 3
                /\ IsCont(s[k + 1])
                /\ IsCont(s[k + 2])
                /\ (c = 224 => s[k + 1] >= 160)
                /\ (c = 237 => s[k + 1] <= 159)
             THEN [r |-> (c - 224) * 4096 + (s[k + 1] - 128) * 64
                           + (s[k + 2] - 128),
                   w |-> 3]
             ELSE bad
      ELSE IF c >= 240 /\ c <= 244
        THEN IF /\ n >= 4
                /\ IsCont(s[k + 1])
                /\ IsCont(s[k + 2])
                /\ IsCont(s[k + 3])
                /\ (c = 240 => s[k + 1] >= 144)
                /\ (c = 244 => s[k + 1] <= 143)
             THEN [r |-> (c - 240) * 262144 + (s[k + 1] - 128) * 4096
                           + (s[k + 2] - 128) * 64 + (s[k + 3] - 128),
                   w |-> 4]
             ELSE bad
      ELSE bad

ValidRune(r) == (r >= 0 /\ r < 55296) \/ (r > 57343 /\ r <= 1114111)

\* utf8.AppendRune: the UTF-8 encoding of r (of U+FFFD when r is no rune)
EncodeRune(r) ==
  IF r >= 0 /\ r < 128 THEN <<r>>
  ELSE IF r >= 128 /\ r < 2048 THEN <<192 + (r \div 64), 128 + (r % 64)>>
  ELSE IF ~ValidRune(r) THEN <<239, 191, 189>>
  ELSE IF r < 65536
    THEN <<224 + (r \div 4096), 128 + ((r \div 64) % 64), 128 + (r % 64)>>
  ELSE <<240 + (r \div 262144), 128 + ((r \div 4096) % 64),
         128 + ((r \div 64) % 64), 128 + (r % 64)>>

\* the loops below run over the positions of s: at[k] is the result for
\* s from position k on
ValidString(s) ==
  LET n == Len(s)
      at[k \in 1..(n + 1)] ==
        IF k > n THEN TRUE
        ELSE LET d == DecodeRune(s, k)
             IN  IF d.w = 1 /\ d.r = 65533 THEN FALSE ELSE at[k + d.w]
  IN  at[1]

\* strconv.IsPrint: the Latin-1 fast path as written there; above U+00FF the
\* table lookup is modelled for the one rune the inputs reach, U+FEFF, which
\* the table lists as not printable
IsPrint(r) ==
  IF r <= 255
  THEN IF r >= 32 /\ r <= 126 THEN TRUE
       ELSE IF r >= 161 THEN r # 173
       ELSE FALSE
  ELSE r # 65279

(***************************************************************************)
(* strconv.Quote and strconv.QuoteToASCII (quoteWith, appendEscapedRune).  *)
(* 34 is '"', 92 is '\'.                                                   *)
(***************************************************************************)
appendEscapedRune(r, ASCIIonly) ==
  IF r = 34 \/ r = 92 THEN <<92, r>>
  ELSE IF ASCIIonly /\ r < 128 /\ IsPrint(r) THEN <<r>>
  ELSE IF ~ASCIIonly /\ IsPrint(r) THEN EncodeRune(r)
  ELSE IF r = 7 THEN <<92, 97>>
  ELSE IF r = 8 THEN <<92, 98>>
  ELSE IF r = 12 THEN <<92, 102>>
  ELSE IF r = 10 THEN <<92, 110>>
  ELSE IF r = 13 THEN <<92, 114>>
  ELSE IF r = 9 THEN <<92, 116>>
  ELSE IF r = 11 THEN <<92, 118>>
  ELSE IF r < 32 \/ r = 127 THEN <<92, 120>> \o Hex2(r)
  ELSE IF ~ValidRune(r) THEN <<92, 117>> \o Hex4(65533)
  ELSE IF r < 65536 THEN <<92, 117>> \o Hex4(r)
  ELSE <<92, 85>> \o Hex4(r \div 65536) \o Hex4(r % 65536)

quoteBody(s, ASCIIonly) ==
  LET n == Len(s)
      at[k \in 1..(n + 1)] ==
        IF k > n THEN <<>>
        ELSE LET d == DecodeRune(s, k)
             IN  (IF d.w = 1 /\ d.r = 65533
                  THEN <<92, 120>> \o Hex2(s[k])
                  ELSE appendEscapedRune(d.r, ASCIIonly))
                 \o at[k + d.w]
  IN  at[1]

quoteWith(s, ASCIIonly) == <<34>> \o quoteBody(s, ASCIIonly) \o <<34>>

Quote(s) == quoteWith(s, FALSE)

QuoteToASCII(s) == quoteWith(s, TRUE)

(***************************************************************************)
(* strconv.CanBackquote: 96 is '`', 9 is tab, 127 is DEL, 65279 is U+FEFF. *)
(***************************************************************************)
CanBackquote(s) ==
  LET n == Len(s)
      at[k \in 1..(n + 1)] ==
        IF k > n THEN TRUE
        ELSE LET d == DecodeRune(s, k)
             IN  IF d.w > 1
                 THEN IF d.r = 65279 THEN FALSE ELSE at[k + d.w]
                 ELSE IF d.r = 65533 THEN FALSE
                 ELSE IF (d.r < 32 /\ d.r # 9) \/ d.r = 96 \/ d.r = 127
                   THEN FALSE
                 ELSE at[k + d.w]
  IN  at[1]

(***************************************************************************)
(* strconv.Unquote of a double-quoted literal (the only kind the command   *)
(* and the round trip hand to it), with strconv.UnquoteChar.               *)
(***************************************************************************)
Unhex(c) ==
  IF c >= 48 /\ c <= 57 THEN c - 48
  ELSE IF c >= 97 /\ c <= 102 THEN c - 87
  ELSE IF c >= 65 /\ c <= 70 THEN c - 55
  ELSE -1

\* the value of a run of hex digits, or -1 when one of them is no hex digit
HexValue(s) ==
  LET val[k \in 0..Len(s)] ==
        IF k = 0 THEN 0 ELSE val[k - 1] * 16 + Unhex(s[k])
  IN  IF \E k \in 1..Len(s) : Unhex(s[k]) < 0 THEN -1 ELSE val[Len(s)]

\* strconv.UnquoteChar(s[k:], '"'): the character, whether it is a rune to
\* encode, and the bytes taken
UnquoteChar(s, k) ==
  LET c == s[k]
      n == Len(s) - k + 1
      bad == [err |-> TRUE, r |-> 0, multibyte |-> FALSE, w |-> 0]
      ok(r, mb, w) == [err |-> FALSE, r |-> r, multibyte |-> mb, w |-> w]
  IN  IF c = 34 THEN bad
      ELSE IF c >= 128 THEN LET d == DecodeRune(s, k) IN ok(d.r, TRUE, d.w)
      ELSE IF c # 92 THEN ok(c, FALSE, 1)
      ELSE IF n <= 1 THEN bad
      ELSE LET e == s[k + 1]
           IN  IF e = 97 THEN ok(7, FALSE, 2)
               ELSE IF e = 98 THEN ok(8, FALSE, 2)
               ELSE IF e = 102 THEN ok(12, FALSE, 2)
               ELSE IF e = 110 THEN ok(10, FALSE, 2)
               ELSE IF e = 114 THEN ok(13, FALSE, 2)
               ELSE IF e = 116 THEN ok(9, FALSE, 2)
               ELSE IF e = 118 THEN ok(11, FALSE, 2)
               ELSE IF e = 120 \/ e = 117 \/ e = 85
                 THEN LET h == IF e = 120 THEN 2 ELSE IF e = 117 THEN 4 ELSE 8
                      IN  IF n - 2 < h THEN bad
                          ELSE LET v == HexValue(SubSeq(s, k + 2, k + 1 + h))
                               IN  IF v < 0 THEN bad
                                   ELSE IF e = 120 THEN ok(v, FALSE, 2 + h)
                                   ELSE IF ~ValidRune(v) THEN bad
                                   ELSE ok(v, TRUE, 2 + h)
               ELSE IF e >= 48 /\ e <= 55
                 THEN IF n - 2 < 2 THEN bad
                      ELSE IF \/ s[k + 2] < 48 \/ s[k + 2] > 55
                              \/ s[k + 3] < 48 \/ s[k + 3] > 55
                        THEN bad
                      ELSE LET v == (e - 48) * 64 + (s[k + 2] - 48) * 8
                                      + (s[k + 3] - 48)
                           IN  IF v > 255 THEN bad ELSE ok(v, FALSE, 4)
               ELSE IF e = 92 THEN ok(92, FALSE, 2)
               ELSE IF e = 34 THEN ok(34, FALSE, 2)
               ELSE bad

unquoteLoop(s) ==
  LET n == Len(s)
      at[k \in 1..(n + 1)] ==
        IF k > n THEN [err |-> FALSE, s |-> <<>>]
        ELSE LET u == UnquoteChar(s, k)
             IN  IF u.err THEN [err |-> TRUE, s |-> <<>>]
                 ELSE LET rest == at[k + u.w]
                      IN  IF rest.err THEN [err |-> TRUE, s |-> <<>>]
                          ELSE [err |-> FALSE,
                                s |-> (IF u.r < 128 \/ ~u.multibyte
                                       THEN <<u.r>>
                                       ELSE EncodeRune(u.r)) \o rest.s]
  IN  at[1]

Unquote(s) ==
  LET n == Len(s)
      body == SubSeq(s, 2, n - 1)
  IN  IF n < 2 THEN [err |-> TRUE, s |-> <<>>]
      ELSE IF s[1] # s[n] \/ s[1] # 34 THEN [err |-> TRUE, s |-> <<>>]
      ELSE IF Contains(body, 10) THEN [err |-> TRUE, s |-> <<>>]
      ELSE IF ~Contains(body, 92) /\ ~Contains(body, 34) /\ ValidString(body)
        THEN [err |-> FALSE, s |-> body]
      ELSE unquoteLoop(body)

(***************************************************************************)
(* json.Marshal of a string (encoding/json appendString, HTML escaping     *)
(* on).  It returns no error for any string: a byte that is not valid      *)
(* UTF-8 is written as the escape of U+FFFD.  Bytes 8 and 12 are written   *)
(* as a six-byte escape or as a two-byte one depending on the library's    *)
(* version; the inputs leave them out.                                     *)
(***************************************************************************)
htmlSafe(c) == c >= 32 /\ c <= 127 /\ c \notin {34, 38, 60, 62, 92}

appendString(s) ==
  LET n == Len(s)
      at[k \in 1..(n + 1)] ==
        IF k > n THEN <<>>
        ELSE LET c == s[k]
                 d == DecodeRune(s, k)
             IN  IF c < 128
                 THEN (IF htmlSafe(c) THEN <<c>>
                       ELSE IF c = 92 \/ c = 34 THEN <<92, c>>
                       ELSE IF c = 10 THEN <<92, 110>>
                       ELSE IF c = 13 THEN <<92, 114>>
                       ELSE IF c = 9 THEN <<92, 116>>
                       ELSE <<92, 117, 48, 48>> \o Hex2(c))
                      \o at[k + 1]
                 ELSE (IF d.r = 65533 /\ d.w = 1
                         THEN <<92, 117, 102, 102, 102, 100>>
                       ELSE IF d.r = 8232 \/ d.r = 8233
                         THEN <<92, 117, 50, 48, 50, Digit(d.r % 16)>>
                       ELSE SubSeq(s, k, k + d.w - 1))
                      \o at[k + d.w]
  IN  at[1]

\* a marshaller that refuses a string that is not valid UTF-8
MarshalStrict(s) ==
  [err |-> ~ValidString(s), p |-> <<34>> \o appendString(s) \o <<34>>]

Marshal(s) == [err |-> FALSE, p |-> <<34>> \o appendString(s) \o <<34>>]

(***************************************************************************)
(* The inputs explored.                                                    *)
(***************************************************************************)
Revs == {"goquote.go", "part_000"}

\* the cases of write's switch in each revision
Modes(r) ==
  {"", "q", "qa", "ra", "r", "x", "bsa", "bs", "0ba", "ba", "0b", "b"}
    \cup (IF r = "part_000" THEN {"j"} ELSE {})

\* mode tokens given on the command line: every case, and two that are none
ModeTokens == Modes("part_000") \cup {"zz", "Q"}

\* pieces of input: a, `, CR, LF, tab, ", \, control byte 1, DEL, <,
\* e-acute (C3 A9), U+0080 (C2 80), U+FEFF (EF BB BF), a lead byte with
\* nothing after it (C3), a continuation byte alone (A9), and "it's"
Chunks ==
  { <<97>>, <<96>>, <<13>>, <<10>>, <<9>>, <<34>>, <<92>>, <<1>>, <<127>>,
    <<60>>, <<195, 169>>, <<194, 128>>, <<239, 187, 191>>, <<195>>, <<169>>,
    <<105, 116, 39, 115>> }

\* what stdin holds when one input is formatted in depth
Inputs == {Flatten(cs) : cs \in SeqsUpTo(Chunks, MaxLen)}

\* positional arguments after the mode token
ArgItems == {<<>>, <<97>>, <<98>>}

ArgLists == SeqsUpTo(ArgItems, MaxArgs)

\* what stdin holds when the driver is explored: nothing, a, a LF, and
\* 0123456789 LF
StdinData ==
  {<<>>, <<97>>, <<97, 10>>, <<48, 49, 50, 51, 52, 53, 54, 55, 56, 57, 10>>}

\* values of -s: the default (one LF), \n, \0, and a comma
SepFlags == {<<10>>, <<92, 110>>, <<92, 48>>, <<44>>}

\* what os.Stdout.Stat() reports
StatKinds == {"error", "pipe", "tty"}

(***************************************************************************)
(* State.                                                                  *)
(***************************************************************************)
VARIABLES
  rev,        \* which revision of the command runs
  flagArgs,   \* flag.Args(): <<>> or the mode token followed by arguments
  sepFlag,    \* the value of -s
  chomp,      \* the value of -c
  stdin,      \* what ioutil.ReadAll(os.Stdin) returns: [err, data]
  stdoutStat, \* what os.Stdout.Stat() reports
  pc,         \* where main is: "main", "stdin", "args", "write", "flush", "exit"
  sep,        \* main's sep
  mode,       \* main's mode
  argv,       \* main's argv
  i,          \* index of the next argument to format
  buf,        \* main's buf
  stack,      \* frames of write, innermost first: mode, lenstr, pad, bsmode, b
  stdout,     \* bytes written to os.Stdout
  stderr,     \* the diagnostic logged, <<>> when none
  exitCode,   \* the exit status, -1 while running
  stdinRead,  \* whether os.Stdin has been read
  items,      \* history: the b of each call of write that main made
  lits,       \* history: what each finished call of write added to buf
  mark,       \* history: Len(buf) when main last called write
  visited,    \* history: the modes the switch was entered with, this call
  gotos,      \* history: goto loop taken, this call
  calls,      \* history: nested calls of write, this call
  terminals   \* history: branches that wrote a literal, this call

inputs == <<rev, flagArgs, sepFlag, chomp, stdin, stdoutStat>>

mainVars == <<sep, mode, argv, i>>

outVars == <<stdout, stderr, exitCode>>

histVars == <<items, lits, mark, visited, gotos, calls, terminals>>

vars == <<inputs, pc, mainVars, buf, stack, outVars, stdinRead, histVars>>

started ==
  /\ pc = "main"
  /\ sep = sepFlag
  /\ mode = ""
  /\ argv = <<>>
  /\ i = 1
  /\ buf = <<>>
  /\ stack = <<>>
  /\ stdout = <<>>
  /\ stderr = <<>>
  /\ exitCode = -1
  /\ stdinRead = FALSE
  /\ items = <<>>
  /\ lits = <<>>
  /\ mark = 0
  /\ visited = <<>>
  /\ gotos = 0
  /\ calls = 0
  /\ terminals = 0

\* the driver with no positional argument: every option, small contents
InitStdin ==
  /\ rev \in Revs
  /\ flagArgs \in {<<>>} \cup {<<m>> : m \in ModeTokens}
  /\ sepFlag \in SepFlags
  /\ chomp \in BOOLEAN
  /\ stdin \in {[err |-> TRUE, data |-> <<>>]}
                 \cup {[err |-> FALSE, data |-> d] : d \in StdinData}
  /\ stdoutStat \in StatKinds
  /\ started

\* the driver with positional arguments; stdin fails or holds a LF
InitArgs ==
  /\ rev \in Revs
  /\ flagArgs \in {<<m>> \o a : m \in ModeTokens, a \in ArgLists \ {<<>>}}
  /\ sepFlag \in SepFlags
  /\ chomp = FALSE
  /\ stdin \in {[err |-> TRUE, data |-> <<>>],
                [err |-> FALSE, data |-> <<97, 10>>]}
  /\ stdoutStat \in StatKinds
  /\ started

\* the formatter in depth: one input on stdin, default options, into a pipe
InitFormat ==
  /\ rev \in Revs
  /\ flagArgs \in {<<m>> : m \in Modes(rev)}
  /\ sepFlag = <<10>>
  /\ chomp = FALSE
  /\ stdin \in {[err |-> FALSE, data |-> d] : d \in Inputs}
  /\ stdoutStat = "pipe"
  /\ started

Init == InitStdin \/ InitArgs \/ InitFormat

(***************************************************************************)
(* main.                                                                   *)
(***************************************************************************)
\* log.Fatal, log.Fatalf: the diagnostic goes to stderr and the process
\* exits with status 1; buf is never written out
Fatal(diag) ==
  /\ stderr' = diag
  /\ exitCode' = 1
  /\ pc' = "exit"
  /\ UNCHANGED <<stdout, buf, stack>>

\* the separator after -s is decoded
decodeSep(r, s) ==
  IF r = "part_000" /\ s = <<92, 48>> THEN <<0>>
  ELSE LET u == Unquote(<<34>> \o s \o <<34>>)
       IN  IF u.err THEN s ELSE u.s

\* flag.Arg(0)
Arg0 == IF Len(flagArgs) > 0 THEN flagArgs[1] ELSE ""

\* a fresh activation of write(buf, b, mode)
Frame(b, m) ==
  [mode |-> m, lenstr |-> <<>>, pad |-> FALSE, bsmode |-> "q", b |-> b,
   at |-> "loop"]

\* main calls write(&buf, b, mode)
CallWrite(b) ==
  /\ stack' = <<Frame(b, mode)>>
  /\ pc' = "write"
  /\ items' = Append(items, b)
  /\ mark' = Len(buf')
  /\ visited' = <<>>
  /\ gotos' = 0
  /\ calls' = 0
  /\ terminals' = 0
  /\ UNCHANGED lits

\* flag parsing is done: sep is decoded, mode and argv are split
mainStart ==
  /\ pc = "main"
  /\ sep' = decodeSep(rev, sepFlag)
  /\ mode' = IF Len(flagArgs) > 0 THEN flagArgs[1] ELSE ""
  /\ argv' = IF Len(flagArgs) > 0 THEN Tail(flagArgs) ELSE <<>>
  /\ pc' = IF Len(flagArgs) > 1 THEN "args" ELSE "stdin"
  /\ UNCHANGED <<inputs, i, buf, stack, outVars, stdinRead, histVars>>

\* the -c trim of one trailing newline
chomped(r, c, b) ==
  IF r = "part_000" /\ c /\ Len(b) > 0 /\ b[Len(b)] = 10
  THEN Take(b, Len(b) - 1)
  ELSE b

\* no positional argument: stdin is read and formatted as one literal
readStdin ==
  /\ pc = "stdin"
  /\ stdinRead' = TRUE
  /\ IF stdin.err
     THEN /\ Fatal([msg |-> "read error", arg |-> ""])
          /\ UNCHANGED histVars
     ELSE /\ buf' = buf
          /\ CallWrite(chomped(rev, chomp, stdin.data))
          /\ UNCHANGED outVars
  /\ UNCHANGED <<inputs, mainVars>>

\* the separator written before every item, the first included
withSepAlways(k, bf, s) == bf \o s

\* the separator written before the k-th item (k counts from 1)
withSep(k, bf, s) == IF k > 1 THEN bf \o s ELSE bf

\* one round of the loop over argv
formatArg ==
  /\ pc = "args"
  /\ i <= Len(argv)
  /\ buf' = withSep(i, buf, sep)
  /\ CallWrite(argv[i])
  /\ i' = i + 1
  /\ UNCHANGED <<inputs, sep, mode, argv, outVars, stdinRead>>

isTTY == stdoutStat # "error" /\ stdoutStat # "pipe"

\* what main adds to buf after the last item
trailer(r, s, tty) ==
  IF r = "part_000" /\ s = <<10>> /\ tty THEN s ELSE <<>>

\* the trailing separator, then buf, if it holds anything, is written to
\* stdout
flush ==
  /\ pc = "flush"
  /\ LET out == buf \o trailer(rev, sep, isTTY)
     IN  stdout' = IF Len(out) > 0 THEN stdout \o out ELSE stdout
  /\ buf' = <<>>
  /\ exitCode' = 0
  /\ pc' = "exit"
  /\ UNCHANGED <<inputs, mainVars, stack, stderr, stdinRead, histVars>>

(***************************************************************************)
(* write: one action per case of the switch.  91 93 98 121 116 101 is      *)
(* []byte, 40 and 41 are ( and ), 123 and 125 are { and }, 44 32 is ", ",  *)
(* 48 120 is 0x, 92 120 is \x, 96 is `.                                    *)
(***************************************************************************)
top == stack[1]

\* the switch is entered with mode m
entered(m) == pc = "write" /\ top.at = "loop" /\ top.mode = m

\* the innermost activation of write returns
Return ==
  /\ stack' = Tail(stack)
  /\ IF Len(stack) = 1
     THEN /\ lits' = Append(lits, Drop(buf', mark))
          /\ pc' = IF i <= Len(argv) THEN "args" ELSE "flush"
     ELSE /\ lits' = lits
          /\ pc' = "write"

\* a branch writes its literal and write returns
Emit(text) ==
  /\ buf' = buf \o text
  /\ terminals' = terminals + 1
  /\ visited' = Append(visited, top.mode)
  /\ Return
  /\ UNCHANGED <<inputs, mainVars, outVars, stdinRead, items, mark, gotos,
                 calls>>

\* goto loop with the locals declared again: lenstr, pad and bsmode are lost
redispatchFresh(f, m) == Frame(f.b, m)

\* goto loop without the assignment to mode
redispatchSame(f, m) == f

\* mode = m; goto loop: the locals lenstr, pad and bsmode keep their values
redispatch(f, m) == [f EXCEPT !.mode = m]

Goto(f) ==
  /\ stack' = <<f>> \o Tail(stack)
  /\ gotos' = gotos + 1
  /\ visited' = Append(visited, top.mode)
  /\ UNCHANGED <<inputs, pc, mainVars, buf, outVars, stdinRead, items, lits,
                 mark, calls, terminals>>

\* a naive quoting: the bytes between double quotes, nothing escaped
quotedRaw(b) == <<34>> \o b \o <<34>>

\* the literal of case "", "q"
quoted(b) == Quote(b)

caseQ ==
  /\ entered("") \/ entered("q")
  /\ Emit(quoted(top.b))

caseQA ==
  /\ entered("qa")
  /\ Emit(QuoteToASCII(top.b))

\* the raw bytes between backquotes
backquoted(b) == <<96>> \o b \o <<96>>

\* a fallback that forgets bsmode and always takes "q"
backquoteOrQuote(f) ==
  IF ~CanBackquote(f.b)
  THEN Goto(redispatch(f, "q"))
  ELSE Emit(backquoted(f.b))

\* the body of case "r", which case "ra" falls into
backquoteOrFallBack(f) ==
  IF ~CanBackquote(f.b)
  THEN Goto(redispatch(f, f.bsmode))
  ELSE Emit(backquoted(f.b))

caseRA ==
  /\ entered("ra")
  /\ backquoteOrFallBack([top EXCEPT !.bsmode = "qa"])

\* case "r" without the strconv.CanBackquote test
caseRNoCheck ==
  /\ entered("r")
  /\ Emit(backquoted(top.b))

caseR ==
  /\ entered("r")
  /\ backquoteOrFallBack(top)

\* the loop of case "x": out[k] is what it has written after k bytes
hexBody(b) ==
  LET out[k \in 0..Len(b)] ==
        IF k = 0 THEN <<>>
        ELSE LET h == FormatUint(b[k], 16)
             IN  out[k - 1] \o <<92, 120>>
                   \o (IF Len(h) = 1 THEN <<48>> ELSE <<>>) \o h
  IN  out[Len(b)]

hexEscaped(b) == <<34>> \o hexBody(b) \o <<34>>

caseX ==
  /\ entered("x")
  /\ Emit(hexEscaped(top.b))

\* the body of case "bs", which case "bsa" falls into, up to the nested call
sliceOfString(f) ==
  /\ buf' = buf \o <<91, 93, 98, 121, 116, 101, 40>>
  /\ stack' = <<Frame(f.b, f.bsmode), [f EXCEPT !.at = "ret"]>> \o Tail(stack)
  /\ calls' = calls + 1
  /\ visited' = Append(visited, top.mode)
  /\ UNCHANGED <<inputs, pc, mainVars, outVars, stdinRead, items, lits, mark,
                 gotos, terminals>>

caseBSA ==
  /\ entered("bsa")
  /\ sliceOfString([top EXCEPT !.bsmode = "qa"])

caseBS ==
  /\ entered("bs")
  /\ sliceOfString(top)

\* the nested call has returned: the closing parenthesis
closeBS ==
  /\ pc = "write"
  /\ top.at = "ret"
  /\ buf' = buf \o <<41>>
  /\ Return
  /\ UNCHANGED <<inputs, mainVars, outVars, stdinRead, items, mark, visited,
                 gotos, calls, terminals>>

\* a length annotation written only for a non-empty b
arrayLengthNonEmpty(f) ==
  redispatch([f EXCEPT !.lenstr = IF f.b = <<>> THEN <<>> ELSE Itoa(Len(f.b))],
             "b")

\* the body of case "ba"
arrayLength(f) == redispatch([f EXCEPT !.lenstr = Itoa(Len(f.b))], "b")

\* case "0ba": it falls into case "ba" in part_000 and goes round the loop
\* to it in goquote.go
case0BA ==
  /\ entered("0ba")
  /\ IF rev = "part_000"
     THEN Goto(arrayLength([top EXCEPT !.pad = TRUE]))
     ELSE Goto(redispatch([top EXCEPT !.pad = TRUE], "ba"))

caseBA ==
  /\ entered("ba")
  /\ Goto(arrayLength(top))

\* one octet of the list
octet(c, pad) ==
  LET h == FormatUint(c, 16)
  IN  <<48, 120>> \o (IF pad /\ Len(h) < 2 THEN <<48>> ELSE <<>>) \o h

\* the separator written after every octet instead of between them
octetsTrailing(b, pad) ==
  LET out[k \in 0..Len(b)] ==
        IF k = 0 THEN <<>>
        ELSE out[k - 1] \o octet(b[k], pad) \o <<44, 32>>
  IN  out[Len(b)]

\* the loop of case "b": out[k] is what it has written after k bytes
octets(b, pad) ==
  LET out[k \in 0..Len(b)] ==
        IF k = 0 THEN <<>>
        ELSE LET seenFirst == k > 1
             IN  out[k - 1] \o (IF seenFirst THEN <<44, 32>> ELSE <<>>)
                   \o octet(b[k], pad)
  IN  out[Len(b)]

\* the body of case "b", which case "0b" falls into
byteList(f) ==
  <<91>> \o f.lenstr \o <<93, 98, 121, 116, 101, 123>>
    \o octets(f.b, f.pad) \o <<125>>

case0B ==
  /\ entered("0b")
  /\ Emit(byteList([top EXCEPT !.pad = TRUE]))

caseB ==
  /\ entered("b")
  /\ Emit(byteList(top))

caseJ ==
  /\ rev = "part_000"
  /\ entered("j")
  /\ LET m == Marshal(top.b)
     IN  IF m.err
         THEN /\ Fatal([msg |-> "unable to marshal", arg |-> top.b])
              /\ visited' = Append(visited, top.mode)
              /\ UNCHANGED <<inputs, mainVars, stdinRead, items, lits, mark,
                             gotos, calls, terminals>>
         ELSE Emit(m.p)

\* a switch with no default branch: write returns having written nothing
caseDefaultSilent ==
  /\ pc = "write"
  /\ top.at = "loop"
  /\ top.mode \notin Modes(rev)
  /\ Emit(<<>>)

caseDefault ==
  /\ pc = "write"
  /\ top.at = "loop"
  /\ top.mode \notin Modes(rev)
  /\ Fatal([msg |-> "invalid format code", arg |-> Arg0])
  /\ visited' = Append(visited, top.mode)
  /\ UNCHANGED <<inputs, mainVars, stdinRead, items, lits, mark, gotos, calls,
                 terminals>>

write ==
  \/ caseQ
  \/ caseQA
  \/ caseRA
  \/ caseR
  \/ caseX
  \/ caseBSA
  \/ caseBS
  \/ closeBS
  \/ case0BA
  \/ caseBA
  \/ case0B
  \/ caseB
  \/ caseJ
  \/ caseDefault

Next ==
  \/ mainStart
  \/ readStdin
  \/ formatArg
  \/ flush
  \/ write

Spec == Init /\ [][Next]_vars

\* the process is sequential and keeps executing: a step that can be taken
\* is taken
FairSpec == Spec /\ WF_vars(Next)

(***************************************************************************)
(* Readers of the output, used to state the properties below.              *)
(***************************************************************************)
\* the position of the first c in s, 0 when there is none
IndexOf(s, c) ==
  IF Contains(s, c)
  THEN CHOOSE k \in 1..Len(s) : s[k] = c /\ \A h \in 1..(k - 1) : s[h] # c
  ELSE 0

RECURSIVE JoinSep(_, _)
JoinSep(ls, s) ==
  IF ls = <<>> THEN <<>>
  ELSE IF Len(ls) = 1 THEN ls[1]
  ELSE ls[1] \o s \o JoinSep(Tail(ls), s)

\* the number a run of decimal digits writes, -1 when it is no such run or
\* has a needless leading zero
DecValue(s) ==
  LET val[k \in 0..Len(s)] ==
        IF k = 0 THEN 0 ELSE val[k - 1] * 10 + (s[k] - 48)
  IN  IF s = <<>> \/ (\E k \in 1..Len(s) : s[k] < 48 \/ s[k] > 57) THEN -1
      ELSE IF Len(s) > 1 /\ s[1] = 48 THEN -1
      ELSE val[Len(s)]

\* the items of a list written with ", " between them; <<-1>> stands for a
\* comma that no blank and item follow
RECURSIVE SplitList(_)
SplitList(s) ==
  IF s = <<>> THEN <<>>
  ELSE LET c == IndexOf(s, 44)
       IN  IF c = 0 THEN <<s>>
           ELSE IF c + 1 >= Len(s) \/ s[c + 1] # 32 THEN <<<<-1>>>>
           ELSE <<Take(s, c - 1)>> \o SplitList(Drop(s, c + 1))

\* a literal [N]byte{...} taken apart: N as written and the octet tokens
ByteLiteral(lit) ==
  LET q == IndexOf(lit, 93)
  IN  [ok   |-> /\ Len(lit) >= 8
                /\ lit[1] = 91
                /\ q > 0
                /\ SubSeq(lit, q, q + 5) = <<93, 98, 121, 116, 101, 123>>
                /\ lit[Len(lit)] = 125,
       n    |-> SubSeq(lit, 2, q - 1),
       toks |-> SplitList(SubSeq(lit, q + 6, Len(lit) - 1))]

LowerHex(d) == \A k \in 1..Len(d) : d[k] \in (48..57) \cup (97..102)

\* an octet token: 0x and then w lower-case hex digits whose value is c
IsOctet(tok, c, w) ==
  /\ Len(tok) = 2 + w
  /\ Take(tok, 2) = <<48, 120>>
  /\ LowerHex(Drop(tok, 2))
  /\ HexValue(Drop(tok, 2)) = c

\* the text a JSON string body stands for, by the grammar of JSON strings;
\* ok is FALSE when the body is no JSON string body
RECURSIVE JSONText(_)
JSONText(s) ==
  IF s = <<>> THEN [ok |-> TRUE, s |-> <<>>]
  ELSE LET c == s[1]
           bad == [ok |-> FALSE, s |-> <<>>]
           more(w, bs) == LET t == JSONText(Drop(s, w))
                          IN  IF t.ok THEN [ok |-> TRUE, s |-> bs \o t.s] ELSE bad
       IN  IF c < 32 \/ c = 34 THEN bad
           ELSE IF c # 92 THEN more(1, <<c>>)
           ELSE IF Len(s) < 2 THEN bad
           ELSE IF s[2] \in {34, 92, 47} THEN more(2, <<s[2]>>)
           ELSE IF s[2] = 98 THEN more(2, <<8>>)
           ELSE IF s[2] = 102 THEN more(2, <<12>>)
           ELSE IF s[2] = 110 THEN more(2, <<10>>)
           ELSE IF s[2] = 114 THEN more(2, <<13>>)
           ELSE IF s[2] = 116 THEN more(2, <<9>>)
           ELSE IF s[2] = 117 /\ Len(s) >= 6 /\ HexValue(SubSeq(s, 3, 6)) >= 0
             THEN more(6, EncodeRune(HexValue(SubSeq(s, 3, 6))))
           ELSE bad

\* the text a JSON string literal stands for
JSONString(lit) ==
  IF Len(lit) >= 2 /\ lit[1] = 34 /\ lit[Len(lit)] = 34
  THEN JSONText(SubSeq(lit, 2, Len(lit) - 1))
  ELSE [ok |-> FALSE, s |-> <<>>]

\* s with every byte that is not part of valid UTF-8 replaced by U+FFFD
RECURSIVE Scrubbed(_)
Scrubbed(s) ==
  IF s = <<>> THEN <<>>
  ELSE LET d == DecodeRune(s, 1)
       IN  (IF d.w = 1 /\ d.r = 65533 THEN <<239, 191, 189>> ELSE Take(s, d.w))
             \o Scrubbed(Drop(s, d.w))

\* U+FEFF (EF BB BF) occurs in s
HasBOM(s) ==
  \E k \in 1..(Len(s) - 2) : SubSeq(s, k, k + 2) = <<239, 187, 191>>

\* the finished calls of write
Done == 1..Len(lits)

\* the mode tokens the specification lists as recognized
Recognized == Modes("part_000")

(***************************************************************************)
(* C1.  Unknown mode token.                                                *)
(***************************************************************************)
\* C1 (as claimed): whenever the mode token is not a recognized mode, the
\* process ends with a non-zero exit and a diagnostic naming the token, and
\* nothing is written to standard output.
C1_UnknownModeNamed ==
  (Len(flagArgs) > 0 /\ flagArgs[1] \notin Recognized) =>
    /\ stdout = <<>>
    /\ exitCode # 0
    /\ pc = "exit" =>
         stderr = [msg |-> "invalid format code", arg |-> flagArgs[1]]

\* C1 (amended): whenever the mode token is not a recognized mode, nothing
\* is ever written to standard output and the exit is non-zero; the
\* diagnostic names the token, unless the input is standard input and
\* reading it fails, when the diagnostic is the read error.
C1_UnknownModeFatal ==
  (Len(flagArgs) > 0 /\ flagArgs[1] \notin Recognized) =>
    /\ stdout = <<>>
    /\ exitCode # 0
    /\ lits = <<>>
    /\ pc # "flush"
    /\ pc = "exit" =>
         /\ exitCode = 1
         /\ IF Len(flagArgs) = 1 /\ stdin.err
            THEN stderr.msg = "read error"
            ELSE stderr = [msg |-> "invalid format code", arg |-> flagArgs[1]]

\* an unknown token followed by two arguments has ended in the diagnostic
C1_Witness ==
  /\ pc = "exit"
  /\ Len(flagArgs) = 3
  /\ flagArgs[1] = "zz"
  /\ stderr = [msg |-> "invalid format code", arg |-> "zz"]
  /\ exitCode = 1

C3_BackquoteUnlessTickOrCR ==
  \A k \in Done :
    mode \in {"r", "ra"} =>
      IF ~Contains(items[k], 96) /\ ~Contains(items[k], 13)
           /\ ValidString(items[k])
      THEN lits[k] = <<96>> \o items[k] \o <<96>>
      ELSE lits[k] = IF mode = "r" THEN Quote(items[k])
                     ELSE QuoteToASCII(items[k])

\* C3 (amended): in modes r and ra the output is the raw bytes between
\* backquotes exactly when the input is valid UTF-8 and has no backquote, no
\* control byte other than tab (so no carriage return and no newline), no
\* DEL and no U+FEFF; otherwise it is the quoted (r) or quoted-ASCII (ra)
\* literal.
C3_BackquoteWhenPlain ==
  \A k \in Done :
    mode \in {"r", "ra"} =>
      IF /\ ValidString(items[k])
         /\ \A h \in 1..Len(items[k]) :
              /\ items[k][h] # 96
              /\ items[k][h] # 127
              /\ items[k][h] >= 32 \/ items[k][h] = 9
         /\ ~HasBOM(items[k])
      THEN lits[k] = <<96>> \o items[k] \o <<96>>
      ELSE lits[k] = IF mode = "r" THEN Quote(items[k])
                     ELSE QuoteToASCII(items[k])

\* mode ra was given e-acute and a newline and fell back to quoted-ASCII
C3_Witness ==
  /\ mode = "ra"
  /\ pc = "exit"
  /\ items = <<<<195, 169, 10>>>>
  /\ lits = <<<<34, 92, 117, 48, 48, 101, 57, 92, 110, 34>>>>

(***************************************************************************)
(* C4.  No backquote inside a backquoted literal.                          *)
(***************************************************************************)
\* C4 (as claimed): the output of mode r never has a backquote between its
\* delimiters, and when the input has a backquote the output is the quoted
\* literal.
C4_NoTickBetweenDelimiters ==
  \A k \in Done :
    mode = "r" =>
      /\ ~Contains(SubSeq(lits[k], 2, Len(lits[k]) - 1), 96)
      /\ Contains(items[k], 96) => lits[k] = Quote(items[k])

\* C4 (amended): an output of mode r that is delimited by backquotes has no
\* backquote between them, and when the input has a backquote the output is
\* the quoted literal (which holds that backquote between double quotes).
C4_NoTickInBackquoted ==
  \A k \in Done :
    mode = "r" =>
      /\ lits[k][1] = 96 =>
           /\ lits[k][Len(lits[k])] = 96
           /\ Len(lits[k]) >= 2
           /\ ~Contains(SubSeq(lits[k], 2, Len(lits[k]) - 1), 96)
      /\ Contains(items[k], 96) =>
           /\ lits[k] = Quote(items[k])
           /\ lits[k][1] = 34
           /\ Contains(lits[k], 96)

\* mode r was given a and a backquote and wrote them between double quotes
C4_Witness ==
  /\ mode = "r"
  /\ pc = "exit"
  /\ items = <<<<97, 96>>>>
  /\ stdout = <<34, 97, 96, 34>>

(***************************************************************************)
(* C5.  Round trip of the quoted literal.                                  *)
(***************************************************************************)
\* C5: unquoting the literal of mode q (or of no mode) gives back the input,
\* whatever bytes it holds.
C5_QuoteRoundTrip ==
  \A k \in Done :
    mode \in {"", "q"} => Unquote(lits[k]) = [err |-> FALSE, s |-> items[k]]

\* mode q was given a backslash and then a continuation byte alone
C5_Witness ==
  /\ mode = "q"
  /\ pc = "exit"
  /\ items = <<<<92, 169>>>>
  /\ stdout = <<34, 92, 92, 92, 120, 97, 57, 34>>

C7_ZeroPadding ==
  \A k \in Done :
    mode \in {"ba", "0ba", "b", "0b"} =>
      LET a == ByteLiteral(lits[k])
      IN  /\ a.ok
          /\ Len(a.toks) = Len(items[k])
          /\ \A h \in 1..Len(a.toks) :
               IsOctet(a.toks[h], items[k][h],
                       IF mode \in {"0ba", "0b"} \/ items[k][h] >= 16
                       THEN 2 ELSE 1)

\* goquote.go, mode 0ba (two rounds of the loop), given a newline and a
\* backquote: [2]byte{0x0a, 0x60}
C7_Witness ==
  /\ rev = "goquote.go"
  /\ mode = "0ba"
  /\ pc = "exit"
  /\ items = <<<<10, 96>>>>
  /\ stdout = <<91, 50, 93, 98, 121, 116, 101, 123,
                48, 120, 48, 97, 44, 32, 48, 120, 54, 48, 125>>

(***************************************************************************)
(* C8.  Positional arguments.                                              *)
(***************************************************************************)
\* C8: with k >= 1 arguments after a recognized mode token, standard input
\* is not read, the items formatted are the arguments and not the token,
\* equal arguments give equal literals, and standard output is the k
\* literals in order with the separator between them, followed by one more
\* separator only if the separator is a newline and stdout is not a pipe;
\* a and b under q with the default separator into a pipe give
\* "a" newline "b".
C8_ArgumentsJoined ==
  (Len(flagArgs) > 1 /\ flagArgs[1] \in Modes(rev)) =>
    /\ ~stdinRead
    /\ \A k \in 1..Len(items) : items[k] = flagArgs[k + 1]
    /\ \A k \in Done : \A h \in Done : items[k] = items[h] => lits[k] = lits[h]
    /\ pc = "exit" =>
         /\ exitCode = 0
         /\ Len(lits) = Len(flagArgs) - 1
         /\ Len(items) = Len(flagArgs) - 1
         /\ \/ stdout = JoinSep(lits, sep)
            \/ /\ stdout = JoinSep(lits, sep) \o sep
               /\ sep = <<10>>
               /\ stdoutStat # "pipe"
         /\ (flagArgs = <<"q", <<97>>, <<98>>>> /\ sepFlag = <<10>>
               /\ stdoutStat = "pipe")
              => stdout = <<34, 97, 34, 10, 34, 98, 34>>

\* part_000, two arguments, the separator given as \n, stdout a terminal:
\* the literals, the newline between them and one more after them
C8_Witness ==
  /\ rev = "part_000"
  /\ pc = "exit"
  /\ flagArgs = <<"q", <<97>>, <<98>>>>
  /\ sepFlag = <<92, 110>>
  /\ stdoutStat = "tty"
  /\ ~stdinRead
  /\ stdout = <<34, 97, 34, 10, 34, 98, 34, 10>>

(***************************************************************************)
(* C9.  Empty input.                                                       *)
(***************************************************************************)
\* the literal with empty content in each mode's delimiter style
EmptyLiteral(m) ==
  IF m \in {"", "q", "qa", "x", "j"} THEN <<34, 34>>
  ELSE IF m \in {"r", "ra"} THEN <<96, 96>>
  ELSE IF m \in {"bs", "bsa"} THEN <<91, 93, 98, 121, 116, 101, 40, 34, 34, 41>>
  ELSE IF m \in {"ba", "0ba"} THEN <<91, 48, 93, 98, 121, 116, 101, 123, 125>>
  ELSE <<91, 93, 98, 121, 116, 101, 123, 125>>

\* C9: for the empty input every mode of the command succeeds and writes
\* the literal with empty content: "" for q, qa, x and j, `` for r and ra
\* (no fallback), []byte("") for bs and bsa, [0]byte{} for ba and 0ba,
\* []byte{} for b and 0b.
C9_EmptyInput ==
  /\ \A k \in 1..Len(items) :
       (items[k] = <<>> /\ mode \in Modes(rev)) =>
         /\ exitCode # 1
         /\ k \in Done => lits[k] = EmptyLiteral(mode)
         /\ k \notin Done => pc = "write"
         /\ k = Len(items) => (gotos = 0 \/ mode \in {"ba", "0ba"})
  /\ (/\ pc = "exit"
      /\ mode \in Modes(rev)
      /\ Len(flagArgs) <= 1
      /\ ~stdin.err
      /\ chomped(rev, chomp, stdin.data) = <<>>)
       => (exitCode = 0 /\ lits = <<EmptyLiteral(mode)>>)

\* mode j of part_000 was given nothing on stdin and wrote ""
C9_Witness ==
  /\ rev = "part_000"
  /\ mode = "j"
  /\ pc = "exit"
  /\ stdin.data = <<>>
  /\ items = <<<<>>>>
  /\ stdout = <<34, 34>>
  /\ exitCode = 0

(***************************************************************************)
(* C10.  The dispatch of write ends.                                       *)
(***************************************************************************)
\* what holds of the history of a call of write at every moment
C10_Bounded ==
  mode \in Modes(rev) =>
    /\ gotos <= 2
    /\ calls <= 1
    /\ Len(visited) <= 3
    /\ terminals <= 1
    /\ \A k \in 1..Len(visited) : \A h \in 1..Len(visited) :
         visited[k] = visited[h] => k = h
    /\ \A k \in 1..Len(visited) : visited[k] \in Modes(rev)
    /\ (pc = "write" /\ top.at = "loop") => top.mode \in Modes(rev)
    /\ stderr = <<>> \/ stderr.msg # "invalid format code"
    /\ (pc = "write" /\ top.at = "ret") => terminals = 1
    /\ (items # <<>> /\ pc # "write" /\ exitCode # 1) =>
         (terminals = 1 /\ Len(lits) = Len(items))

\* C10: from a mode of the command, write goes round its loop at most
\* twice and calls itself at most once, never enters the switch twice with
\* one mode nor reaches the default branch, and every call of write that
\* main makes returns, after exactly one branch has written a literal.
C10_DispatchEnds ==
  /\ []C10_Bounded
  /\ (pc = "write") ~> (pc # "write")

\* goquote.go, mode 0ba: the loop was gone round twice (0ba, ba, b) and one
\* branch then wrote the literal
C10_Witness ==
  /\ rev = "goquote.go"
  /\ mode = "0ba"
  /\ visited = <<"0ba", "ba", "b">>
  /\ gotos = 2
  /\ terminals = 1
  /\ pc = "flush"

====
